---- MODULE Spec2Model ----
(***************************************************************************)
(* The chat endpoint of Edge Study Buddy (src/src/index.ts): handleChat    *)
(* and its helpers loadHistory, saveHistory, sessionKey and trimHistory,   *)
(* with the Workers KV namespace CHAT_KV and the Workers AI binding AI as  *)
(* the two collaborators.                                                  *)
(*                                                                         *)
(* A JavaScript string is a sequence of tokens (each token one or more     *)
(* characters); whitespace tokens are " " and "\n".  A JavaScript value    *)
(* that can stand in a request field or in the AI result is a record       *)
(* [t |-> type, s |-> string], s being <<>> unless t = "string".           *)
(***************************************************************************)
EXTENDS Integers, Sequences, FiniteSets, TLC

\* ------------------------------------------------------------ bounds
\* Requests the worker receives in one behaviour.
MaxRequests == 2
\* Exchanges beyond a window filled but for one that the first session may
\* have completed before the behaviour starts.
MaxExtra == 1
\* Longest transcript and largest window handed to trimHistory on its own.
MaxLen == 5
MaxWindow == 3
\* Requests of one session in a behaviour of the session under load.
MaxRace == 3

\* --------------------------------------------------- program constants
MAX_HISTORY_MESSAGES == 16
\* expirationTtl, in seconds
EXPIRATION_TTL == 60 * 60 * 24 * 7
\* The time that passes between two looks at the clock.
TickSeconds == EXPIRATION_TTL \div 2

SessionIds == {<<"s1">>, <<"s2">>}
\* Requests that can be in flight at the same time.
Slots == {1, 2}

\* ---------------------------------------------------------- strings
Whitespace == {" ", "\n"}

SYSTEM_PROMPT == <<"\n", "You are Edge Study Buddy", "\n">>

NO_RESPONSE == <<"[no response]">>

RECURSIVE trimStart(_)
trimStart(s) ==
    IF s # <<>> /\ Head(s) \in Whitespace THEN trimStart(Tail(s)) ELSE s

RECURSIVE trimEnd(_)
trimEnd(s) ==
    IF s # <<>> /\ s[Len(s)] \in Whitespace
    THEN trimEnd(SubSeq(s, 1, Len(s) - 1))
    ELSE s

\* String.prototype.trim
trim(s) == trimEnd(trimStart(s))

\* ------------------------------------------------------ JavaScript values
Undefined == [t |-> "undefined", s |-> <<>>]
Null == [t |-> "null", s |-> <<>>]
Num == [t |-> "number", s |-> <<>>]
Str(s) == [t |-> "string", s |-> s]

\* !v is false: undefined, null and "" are falsy, the number (42) is not.
Truthy(v) == v.t = "number" \/ (v.t = "string" /\ v.s # <<>>)

\* a ?? b
Coalesce(a, b) == IF a.t \in {"undefined", "null"} THEN b ELSE a

\* Array.prototype.slice(start) for any integer start
slice(a, start) ==
    LET from == IF start < 0
                THEN (IF Len(a) + start < 0 THEN 0 ELSE Len(a) + start)
                ELSE (IF start > Len(a) THEN Len(a) ELSE start)
    IN  SubSeq(a, from + 1, Len(a))

\* ------------------------------------------------------------- turns
Roles == {"system", "user", "assistant"}

Msg(role, content) == [role |-> role, content |-> content]

\* An array element that is not a ChatMessage (a number, say).
NotAMessage == [role |-> "none", content |-> <<>>]

\* ------------------------------------------------------ stored values
\* What CHAT_KV.get resolves to: null for a missing or expired key, else the
\* stored text.  The text is "" ("empty"), text JSON.parse throws on
\* ("garbage"), JSON of a value that is not an array ("nonarray"), or JSON
\* of an array, whose elements v holds.
Absent == [k |-> "absent", v |-> <<>>]
EmptyText == [k |-> "empty", v |-> <<>>]
Garbage == [k |-> "garbage", v |-> <<>>]
NonArray == [k |-> "nonarray", v |-> <<>>]

\* JSON.stringify of an array of messages
JSONstringify(history) == [k |-> "array", v |-> history]

\* JSON.parse: throws on text that is not JSON, else the value written
JSONparse(raw) ==
    CASE raw.k = "array" -> [throws |-> FALSE, isArray |-> TRUE, v |-> raw.v]
      [] raw.k = "nonarray" -> [throws |-> FALSE, isArray |-> FALSE, v |-> <<>>]
      [] OTHER -> [throws |-> TRUE, isArray |-> FALSE, v |-> <<>>]

sessionKey(sessionId) == <<"session:">> \o sessionId

Keys == {sessionKey(id) : id \in SessionIds}

\* loadHistory, given what CHAT_KV.get resolved to
loadHistory(raw) ==
    IF raw.k \in {"absent", "empty"}
    THEN <<>>
    ELSE LET parsed == JSONparse(raw)
         IN  IF parsed.throws THEN <<>>
             ELSE IF parsed.isArray THEN parsed.v
             ELSE <<>>

\* trimHistory without the care for index 0: the last maxMessages + 1 of all
trimHistory_flat(history, maxMessages) ==
    IF Len(history) <= maxMessages + 1
    THEN history
    ELSE slice(history, -(maxMessages + 1))

\* trimHistory with the test one too far: an array of maxMessages + 2 is kept
trimHistory_late(history, maxMessages) ==
    IF Len(history) <= maxMessages + 2
    THEN history
    ELSE <<history[1]>> \o slice(slice(history, 1), -maxMessages)

\* trimHistory keeping one message too many
trimHistory_wide(history, maxMessages) ==
    IF Len(history) <= maxMessages + 1
    THEN history
    ELSE <<history[1]>> \o slice(slice(history, 1), -(maxMessages + 1))

\* trimHistory keeping the oldest messages instead of the latest
trimHistory_oldest(history, maxMessages) ==
    IF Len(history) <= maxMessages + 1
    THEN history
    ELSE <<history[1]>> \o SubSeq(slice(history, 1), 1, maxMessages)

\* trimHistory
trimHistory(history, maxMessages) ==
    IF Len(history) <= maxMessages + 1
    THEN history
    ELSE LET systemMessage == history[1]
             rest == slice(history, 1)
             trimmedRest == slice(rest, -maxMessages)
         IN  <<systemMessage>> \o trimmedRest

\* seed without its test of the length
seed_always(history) == Append(history, Msg("system", trim(SYSTEM_PROMPT)))

\* handleChat, lines 76-81: the system prompt opens an empty history
seed(history) ==
    IF Len(history) = 0
    THEN Append(history, Msg("system", trim(SYSTEM_PROMPT)))
    ELSE history

\* handleChat, lines 84-87
pushUser(history, userMessage) == Append(history, Msg("user", userMessage))

\* handleChat, lines 102-108
replyText(aiResponse) == Coalesce(aiResponse, Str(NO_RESPONSE)).s

pushAssistant(history, reply) == Append(history, Msg("assistant", reply))

\* One whole exchange of handleChat that succeeds, from the stored value to
\* the value it stores (lines 74-111).
windowed(raw, userMessage) ==
    trimHistory(pushUser(seed(loadHistory(raw)), userMessage), MAX_HISTORY_MESSAGES)

exchange(raw, userMessage, aiResponse) ==
    JSONstringify(pushAssistant(windowed(raw, userMessage), replyText(aiResponse)))

\* The text of the n-th message and reply of a session's earlier exchanges,
\* and of the n-th request of a behaviour and the AI's answer to it.
priorMessage(n) == <<"m" \o ToString(n)>>
priorReply(n) == <<"a" \o ToString(n)>>
message(n) == <<"q" \o ToString(n)>>
answer(n) == <<"r" \o ToString(n)>>

\* What n exchanges in a row leave under a key that was absent.
RECURSIVE stored(_)
stored(n) ==
    IF n = 0 THEN Absent
    ELSE exchange(stored(n - 1), priorMessage(n), Str(priorReply(n)))

\* ------------------------------------------------------------- state
VARIABLES
    kv,           \* CHAT_KV: key -> stored value
    ttl,          \* CHAT_KV: key -> seconds until the key expires (0: no key)
    nreq,         \* requests received so far
    pc,           \* slot -> "idle", "get", "run", "put", "done"
    body,         \* slot -> the request's body
    raw,          \* slot -> what CHAT_KV.get resolved to
    pushed,       \* slot -> history after line 87, before trimHistory
    messages,     \* slot -> the messages handed to AI.run
    history,      \* slot -> the local variable history
    reply,        \* slot -> the local variable replyText
    calls,        \* slot -> the collaborator calls made, in order
    resp,         \* slot -> the response returned
    tIn, tMax, tOut, tDone   \* trimHistory run on its own

reqVars == <<nreq, pc, body, raw, pushed, messages, history, reply, calls, resp>>
trimVars == <<tIn, tMax, tOut, tDone>>
vars == <<kv, ttl, reqVars, trimVars>>

NoBody == [kind |-> "none", sessionId |-> Undefined, message |-> Undefined]
NoResp == [status |-> 0, error |-> "", reply |-> <<>>, history |-> <<>>]

\* json(data, status)
json_error(error, status) ==
    [status |-> status, error |-> error, reply |-> <<>>, history |-> <<>>]
json_payload(text, hist) ==
    [status |-> 200, error |-> "", reply |-> text, history |-> hist]

\* The bodies the n-th request can carry: text request.json() rejects
\* ("invalid"), JSON null ("null"), or an object.  An object has any sessionId
\* with a message in words, or the first session's id with any message, or
\* neither field.
SessionIdValues == {Undefined, Num, Str(<<>>)} \cup {Str(id) : id \in SessionIds}
MessageValues(n) ==
    {Undefined, Num, Str(<<>>), Str(<<" ">>), Str(<<" ">> \o message(n) \o <<"\n">>)}
Bodies(n) ==
    {[kind |-> "invalid", sessionId |-> Undefined, message |-> Undefined],
     [kind |-> "null", sessionId |-> Undefined, message |-> Undefined]}
    \cup {b \in [kind : {"object"}, sessionId : SessionIdValues, message : MessageValues(n)] :
            \/ b.message = Str(<<" ">> \o message(n) \o <<"\n">>)
            \/ b.sessionId.s = <<"s1">>
            \/ b.sessionId = Undefined /\ b.message = Undefined}

\* What AI.run can resolve to, as the response field of the result.
AiResponses(n) == {Undefined, Null, Str(<<>>), Str(answer(n))}

\* keyOf with one key for every session
keyOf_first(r) == sessionKey(<<"s1">>)

keyOf(r) == sessionKey(body[r].sessionId.s)

trimIdle == tIn = <<>> /\ tMax = 0 /\ tOut = <<>> /\ tDone = FALSE

slotsIdle ==
    /\ nreq = 0
    /\ pc = [r \in Slots |-> "idle"]
    /\ body = [r \in Slots |-> NoBody]
    /\ raw = [r \in Slots |-> Absent]
    /\ pushed = [r \in Slots |-> <<>>]
    /\ messages = [r \in Slots |-> <<>>]
    /\ history = [r \in Slots |-> <<>>]
    /\ reply = [r \in Slots |-> <<>>]
    /\ calls = [r \in Slots |-> <<>>]
    /\ resp = [r \in Slots |-> NoResp]

\* The first session is new, or has had the exchanges that fill the window
\* but for one (its transcript is two short of being trimmed), or up to
\* MaxExtra more, the last of them just now; the other sessions are new.
FirstKey == sessionKey(<<"s1">>)

FullWindow == MAX_HISTORY_MESSAGES \div 2

Priors == {0} \cup ((FullWindow - 1)..(FullWindow - 1 + MaxExtra))

Init ==
    /\ \E n \in Priors :
          kv = [k \in Keys |-> IF k = FirstKey THEN stored(n) ELSE Absent]
    /\ ttl = [k \in Keys |-> IF kv[k] = Absent THEN 0 ELSE EXPIRATION_TTL]
    /\ slotsIdle
    /\ trimIdle

\* ------------------------------------------------------------ actions
\* What a slot holds when a request enters it.
enter(r, b, at, response, made) ==
    /\ nreq' = nreq + 1
    /\ pc' = [pc EXCEPT ![r] = at]
    /\ body' = [body EXCEPT ![r] = b]
    /\ raw' = [raw EXCEPT ![r] = Absent]
    /\ pushed' = [pushed EXCEPT ![r] = <<>>]
    /\ messages' = [messages EXCEPT ![r] = <<>>]
    /\ history' = [history EXCEPT ![r] = <<>>]
    /\ reply' = [reply EXCEPT ![r] = <<>>]
    /\ calls' = [calls EXCEPT ![r] = made]
    /\ resp' = [resp EXCEPT ![r] = response]

\* validate with the two checks in the other order
validate_swapped(b) ==
    CASE b.kind \in {"invalid", "null"} -> json_error("Internal error", 500)
      [] ~Truthy(b.message) \/ b.message.t # "string" ->
            json_error("Missing or invalid message", 400)
      [] ~Truthy(b.sessionId) \/ b.sessionId.t # "string" ->
            json_error("Missing or invalid sessionId", 400)
      [] OTHER -> NoResp

\* handleChat, lines 61-68: the outcome of parsing and validating body b.
\* "" stands for a body that passes.
validate(b) ==
    CASE b.kind \in {"invalid", "null"} -> json_error("Internal error", 500)
      [] ~Truthy(b.sessionId) \/ b.sessionId.t # "string" ->
            json_error("Missing or invalid sessionId", 400)
      [] ~Truthy(b.message) \/ b.message.t # "string" ->
            json_error("Missing or invalid message", 400)
      [] OTHER -> NoResp

\* A request arrives in the first free slot; handleChat runs to its first await on a
\* collaborator (lines 59-74), or returns at once when the body is rejected.
Receive(r, b) ==
    /\ pc[r] = "idle"
    /\ \A q \in Slots : q < r => pc[q] # "idle"
    /\ nreq < MaxRequests
    /\ IF validate(b) = NoResp
       THEN enter(r, b, "get", NoResp, <<"get">>)
       ELSE enter(r, b, "done", validate(b), <<>>)
    /\ UNCHANGED <<kv, ttl, trimVars>>

\* KvGetReturn storing the transcript as soon as the user message is in it
KvGetReturn_saves(r) ==
    /\ pc[r] = "get"
    /\ LET userMessage == trim(body[r].message.s)
           got == kv[keyOf(r)]
           loaded == seed(loadHistory(got))
           appended == pushUser(loaded, userMessage)
           trimmed == trimHistory(appended, MAX_HISTORY_MESSAGES)
       IN  /\ raw' = [raw EXCEPT ![r] = got]
           /\ pushed' = [pushed EXCEPT ![r] = appended]
           /\ history' = [history EXCEPT ![r] = trimmed]
           /\ messages' = [messages EXCEPT ![r] = trimmed]
           /\ kv' = [kv EXCEPT ![keyOf(r)] = JSONstringify(trimmed)]
           /\ ttl' = [ttl EXCEPT ![keyOf(r)] = EXPIRATION_TTL]
    /\ pc' = [pc EXCEPT ![r] = "run"]
    /\ calls' = [calls EXCEPT ![r] = Append(@, "run")]
    /\ UNCHANGED <<nreq, body, reply, resp, trimVars>>

\* KvGetReturn trimming what it loaded before it appends the user message
KvGetReturn_trimfirst(r) ==
    /\ pc[r] = "get"
    /\ LET userMessage == trim(body[r].message.s)
           got == kv[keyOf(r)]
           loaded == seed(loadHistory(got))
           appended == pushUser(loaded, userMessage)
           trimmed == pushUser(trimHistory(loaded, MAX_HISTORY_MESSAGES), userMessage)
       IN  /\ raw' = [raw EXCEPT ![r] = got]
           /\ pushed' = [pushed EXCEPT ![r] = appended]
           /\ history' = [history EXCEPT ![r] = trimmed]
           /\ messages' = [messages EXCEPT ![r] = trimmed]
    /\ pc' = [pc EXCEPT ![r] = "run"]
    /\ calls' = [calls EXCEPT ![r] = Append(@, "run")]
    /\ UNCHANGED <<kv, ttl, nreq, body, reply, resp, trimVars>>

\* CHAT_KV.get resolves; handleChat runs on to AI.run (lines 74-100).
KvGetReturn(r) ==
    /\ pc[r] = "get"
    /\ LET userMessage == trim(body[r].message.s)
           got == kv[keyOf(r)]
           loaded == seed(loadHistory(got))
           appended == pushUser(loaded, userMessage)
           trimmed == trimHistory(appended, MAX_HISTORY_MESSAGES)
       IN  /\ raw' = [raw EXCEPT ![r] = got]
           /\ pushed' = [pushed EXCEPT ![r] = appended]
           /\ history' = [history EXCEPT ![r] = trimmed]
           /\ messages' = [messages EXCEPT ![r] = trimmed]
    /\ pc' = [pc EXCEPT ![r] = "run"]
    /\ calls' = [calls EXCEPT ![r] = Append(@, "run")]
    /\ UNCHANGED <<kv, ttl, nreq, body, reply, resp, trimVars>>

\* KvGetFail calling CHAT_KV.get once more instead of giving up
KvGetFail_retry(r) ==
    /\ pc[r] = "get"
    /\ calls' = [calls EXCEPT ![r] = Append(@, "get")]
    /\ UNCHANGED <<kv, ttl, nreq, pc, body, raw, pushed, messages, history, reply, resp, trimVars>>

\* CHAT_KV.get rejects: the catch block answers 500 (lines 119-122).
KvGetFail(r) ==
    /\ pc[r] = "get"
    /\ pc' = [pc EXCEPT ![r] = "done"]
    /\ resp' = [resp EXCEPT ![r] = json_error("Internal error", 500)]
    /\ UNCHANGED <<kv, ttl, nreq, body, raw, pushed, messages, history, reply, calls, trimVars>>

\* AiReturn pushing aiResponse.response itself, not replyText
AiReturn_raw(r, out) ==
    /\ pc[r] = "run"
    /\ reply' = [reply EXCEPT ![r] = replyText(out)]
    /\ history' = [history EXCEPT ![r] =
                     pushAssistant(@, IF out \in {Undefined, Null} THEN <<>> ELSE out.s)]
    /\ pc' = [pc EXCEPT ![r] = "put"]
    /\ calls' = [calls EXCEPT ![r] = Append(@, "put")]
    /\ UNCHANGED <<kv, ttl, nreq, body, raw, pushed, messages, resp, trimVars>>

\* AI.run resolves with aiResponse.response = out; handleChat appends the
\* reply and calls CHAT_KV.put (lines 102-111, 146).
AiReturn(r, out) ==
    /\ pc[r] = "run"
    /\ reply' = [reply EXCEPT ![r] = replyText(out)]
    /\ history' = [history EXCEPT ![r] = pushAssistant(@, replyText(out))]
    /\ pc' = [pc EXCEPT ![r] = "put"]
    /\ calls' = [calls EXCEPT ![r] = Append(@, "put")]
    /\ UNCHANGED <<kv, ttl, nreq, body, raw, pushed, messages, resp, trimVars>>

\* AiFail with the history saved on the way out, as a finally block would
AiFail_saves(r) ==
    /\ pc[r] = "run"
    /\ pc' = [pc EXCEPT ![r] = "done"]
    /\ resp' = [resp EXCEPT ![r] = json_error("Internal error", 500)]
    /\ kv' = [kv EXCEPT ![keyOf(r)] = JSONstringify(history[r])]
    /\ ttl' = [ttl EXCEPT ![keyOf(r)] = EXPIRATION_TTL]
    /\ UNCHANGED <<nreq, body, raw, pushed, messages, history, reply, calls, trimVars>>

\* AI.run rejects, or resolves with null so that line 102 throws: the catch
\* block answers 500.
AiFail(r) ==
    /\ pc[r] = "run"
    /\ pc' = [pc EXCEPT ![r] = "done"]
    /\ resp' = [resp EXCEPT ![r] = json_error("Internal error", 500)]
    /\ UNCHANGED <<kv, ttl, nreq, body, raw, pushed, messages, history, reply, calls, trimVars>>

\* saveHistory appending the request's two new messages to what the key holds
\* at the time of the write, as a read-modify-write at the put would
saveHistory_merge(r) ==
    /\ kv' = [kv EXCEPT ![keyOf(r)] =
                JSONstringify(loadHistory(@) \o SubSeq(history[r], Len(history[r]) - 1, Len(history[r])))]
    /\ ttl' = [ttl EXCEPT ![keyOf(r)] = EXPIRATION_TTL]

\* saveHistory writing the array as it was before trimHistory
saveHistory_untrimmed(r) ==
    /\ kv' = [kv EXCEPT ![keyOf(r)] =
                JSONstringify(Append(pushed[r], history[r][Len(history[r])]))]
    /\ ttl' = [ttl EXCEPT ![keyOf(r)] = EXPIRATION_TTL]

\* saveHistory writing the array that went to AI.run, without the reply
saveHistory_sent(r) ==
    /\ kv' = [kv EXCEPT ![keyOf(r)] = JSONstringify(messages[r])]
    /\ ttl' = [ttl EXCEPT ![keyOf(r)] = EXPIRATION_TTL]

\* saveHistory giving an expiry only to a key it creates
saveHistory_keepttl(r) ==
    /\ kv' = [kv EXCEPT ![keyOf(r)] = JSONstringify(history[r])]
    /\ ttl' = [ttl EXCEPT ![keyOf(r)] = IF kv[keyOf(r)] = Absent THEN EXPIRATION_TTL ELSE @]

\* saveHistory: what CHAT_KV.put writes under the key, and for how long
saveHistory(r) ==
    /\ kv' = [kv EXCEPT ![keyOf(r)] = JSONstringify(history[r])]
    /\ ttl' = [ttl EXCEPT ![keyOf(r)] = EXPIRATION_TTL]

\* CHAT_KV.put resolves: the value is stored and handleChat answers 200
\* (lines 111-118).
KvPutReturn(r) ==
    /\ pc[r] = "put"
    /\ saveHistory(r)
    /\ pc' = [pc EXCEPT ![r] = "done"]
    /\ resp' = [resp EXCEPT ![r] = json_payload(reply[r], history[r])]
    /\ UNCHANGED <<nreq, body, raw, pushed, messages, history, reply, calls, trimVars>>

\* CHAT_KV.put rejects: nothing is stored and the catch block answers 500.
KvPutFail(r) ==
    /\ pc[r] = "put"
    /\ pc' = [pc EXCEPT ![r] = "done"]
    /\ resp' = [resp EXCEPT ![r] = json_error("Internal error", 500)]
    /\ UNCHANGED <<kv, ttl, nreq, body, raw, pushed, messages, history, reply, calls, trimVars>>

\* The response has gone out and the invocation ends; its slot is free.
Close(r) ==
    /\ pc[r] = "done"
    /\ pc' = [pc EXCEPT ![r] = "idle"]
    /\ body' = [body EXCEPT ![r] = NoBody]
    /\ raw' = [raw EXCEPT ![r] = Absent]
    /\ pushed' = [pushed EXCEPT ![r] = <<>>]
    /\ messages' = [messages EXCEPT ![r] = <<>>]
    /\ history' = [history EXCEPT ![r] = <<>>]
    /\ reply' = [reply EXCEPT ![r] = <<>>]
    /\ calls' = [calls EXCEPT ![r] = <<>>]
    /\ resp' = [resp EXCEPT ![r] = NoResp]
    /\ UNCHANGED <<kv, ttl, nreq, trimVars>>

\* Time passes: every key is closer to its expiry, and a key whose time is
\* up is gone.  A request lasts seconds, so none is in flight across a tick.
Tick ==
    /\ \A r \in Slots : pc[r] = "idle"
    /\ \E k \in Keys : ttl[k] > 0
    /\ ttl' = [k \in Keys |-> IF ttl[k] > TickSeconds THEN ttl[k] - TickSeconds ELSE 0]
    /\ kv' = [k \in Keys |-> IF ttl[k] > TickSeconds THEN kv[k] ELSE Absent]
    /\ UNCHANGED <<reqVars, trimVars>>

Next ==
    \/ \E r \in Slots : \E b \in Bodies(nreq + 1) : Receive(r, b)
    \/ \E r \in Slots : KvGetReturn(r)
    \/ \E r \in Slots : KvGetFail(r)
    \/ \E r \in Slots : \E out \in AiResponses(nreq) : AiReturn(r, out)
    \/ \E r \in Slots : AiFail(r)
    \/ \E r \in Slots : KvPutReturn(r)
    \/ \E r \in Slots : KvPutFail(r)
    \/ \E r \in Slots : Close(r)
    \/ Tick

Spec == Init /\ [][Next]_vars

\* ------------------------------------------------- other specifications
\* One session under load: up to MaxRace requests for the first session, each
\* with a message in words and an answer in words, two in flight at a time,
\* every collaborator call resolving.
ReceiveRace(r) ==
    /\ pc[r] = "idle"
    /\ \A q \in Slots : q < r => pc[q] # "idle"
    /\ nreq < MaxRace
    /\ enter(r, [kind |-> "object", sessionId |-> Str(<<"s1">>),
                 message |-> Str(message(nreq + 1))], "get", NoResp, <<"get">>)
    /\ UNCHANGED <<kv, ttl, trimVars>>

NextRace ==
    \/ \E r \in Slots : ReceiveRace(r)
    \/ \E r \in Slots : KvGetReturn(r)
    \/ \E r \in Slots : AiReturn(r, Str(answer(nreq)))
    \/ \E r \in Slots : KvPutReturn(r)
    \/ \E r \in Slots : Close(r)

SpecRace == Init /\ [][NextRace]_vars

\* The first key holds whatever something else wrote there.
ForeignValues ==
    {EmptyText, Garbage, NonArray,
     JSONstringify(<<>>),
     JSONstringify(<<NotAMessage>>),
     JSONstringify(<<NotAMessage, NotAMessage>>),
     JSONstringify(<<Msg("user", <<"x">>)>>),
     JSONstringify(<<Msg("assistant", <<"y">>), Msg("system", <<"z">>)>>)}

InitForeign ==
    /\ \E v \in ForeignValues :
          kv = [k \in Keys |-> IF k = FirstKey THEN v ELSE Absent]
    /\ ttl = [k \in Keys |-> IF kv[k] = Absent THEN 0 ELSE EXPIRATION_TTL]
    /\ slotsIdle
    /\ trimIdle

SpecForeign == InitForeign /\ [][Next]_vars

\* trimHistory on its own: any array of up to MaxLen messages, any window of
\* 1 to MaxWindow messages.
trimInput(roles) ==
    [i \in 1..Len(roles) |-> Msg(roles[i], <<"t" \o ToString(i)>>)]

InitTrim ==
    /\ \E n \in 0..MaxLen : \E roles \in [1..n -> Roles] : tIn = trimInput(roles)
    /\ tMax \in 1..MaxWindow
    /\ tOut = <<>>
    /\ tDone = FALSE
    /\ kv = [k \in Keys |-> Absent]
    /\ ttl = [k \in Keys |-> 0]
    /\ slotsIdle

CallTrim ==
    /\ ~tDone
    /\ tOut' = trimHistory(tIn, tMax)
    /\ tDone' = TRUE
    /\ UNCHANGED <<kv, ttl, reqVars, tIn, tMax>>

SpecTrim == InitTrim /\ [][CallTrim]_vars

\* ------------------------------------------------------------ claims
Range(f) == {f[i] : i \in DOMAIN f}

SystemCount(h) == Cardinality({i \in DOMAIN h : h[i].role = "system"})

SystemTurn == Msg("system", trim(SYSTEM_PROMPT))

\* The request in slot r has read the store and built its transcript.
Built(r) == "run" \in Range(calls[r])

Succeeded(r) == pc[r] = "done" /\ resp[r].status = 200

\* C1: a request whose inference call fails writes nothing: none of its steps
\* up to and including the failure changes the store (value or expiry), the
\* failure answers 500, and the request never calls put.
C1_NoWriteOnInferenceFailure ==
    [][\A r \in Slots :
          /\ (pc[r] \in {"idle", "get", "run"} /\ pc'[r] # pc[r])
                => (kv' = kv /\ ttl' = ttl)
          /\ (pc[r] = "run" /\ pc'[r] = "done")
                => (resp'[r].status = 500 /\ calls'[r] = <<"get", "run">>)]_vars

\* An inference call has failed on a new session: the transcript in memory
\* holds the seed and the user turn, and the key is as it was read.
C1_Witness ==
    \E r \in Slots :
        /\ pc[r] = "done" /\ resp[r].status = 500 /\ calls[r] = <<"get", "run">>
        /\ raw[r] = Absent
        /\ history[r] = <<SystemTurn, Msg("user", message(1))>>
        /\ kv[keyOf(r)] = raw[r]

\* C2: seeding is idempotent.  Every stored transcript has one system turn,
\* the first.  A request that found no entry (never written, or expired)
\* builds [system, user], and answers [system, user, assistant] when it
\* succeeds; a request that found an entry adds the user turn to it and no
\* system turn.
C2_SeedingIdempotent ==
    /\ \A k \in Keys :
          kv[k] # Absent => (kv[k].v[1] = SystemTurn /\ SystemCount(kv[k].v) = 1)
    /\ \A r \in Slots : Built(r) =>
          LET user == Msg("user", trim(body[r].message.s))
          IN  /\ raw[r] = Absent => pushed[r] = <<SystemTurn, user>>
              /\ raw[r] # Absent => pushed[r] = Append(raw[r].v, user)
              /\ SystemCount(history[r]) = 1
              /\ (Succeeded(r) /\ raw[r] = Absent) =>
                    /\ Len(resp[r].history) = 3
                    /\ SubSeq(resp[r].history, 1, 2) = <<SystemTurn, user>>
                    /\ resp[r].history[3].role = "assistant"

\* The second call of a new session has succeeded: it read what the first
\* call stored and answers five turns with one system turn.
C2_Witness ==
    \E r \in Slots :
        /\ Succeeded(r)
        /\ Len(raw[r].v) = 3
        /\ raw[r].v[2] = Msg("user", message(1))
        /\ Len(resp[r].history) = 5
        /\ resp[r].history[4] = Msg("user", message(2))
        /\ SystemCount(resp[r].history) = 1

WellSeeded(h) ==
    h = <<>> \/ (h[1].role = "system" /\ \A i \in 2..Len(h) : h[i].role # "system")

\* C3: every non-empty transcript sent to inference, stored by a request or
\* returned has a system turn first and no other system turn, whatever the
\* store held for the session.
C3_InstructionFirst ==
    \A r \in Slots :
        /\ WellSeeded(messages[r])
        /\ WellSeeded(resp[r].history)
        /\ Succeeded(r) => WellSeeded(history[r])

\* C4: trimHistory with a window of N >= 1 returns an array of at most N + 1
\* messages as it is, and of a longer one the first message followed by the
\* last N of the others, in their order.
C4_Windowing ==
    tDone =>
        IF Len(tIn) <= tMax + 1
        THEN tOut = tIn
        ELSE /\ Len(tOut) = tMax + 1
             /\ tOut[1] = tIn[1]
             /\ \A i \in 1..tMax : tOut[1 + i] = tIn[Len(tIn) - tMax + i]

\* An array of exactly N + 1 messages has come back whole, N being the
\* largest window tried.
C4_Witness ==
    tDone /\ tMax = MaxWindow /\ Len(tIn) = tMax + 1 /\ tOut = tIn

\* The transcript a request sends: the first of h, then the others but for
\* the oldest `dropped`.
Dropping(h, dropped) == <<h[1]>> \o SubSeq(h, 2 + dropped, Len(h))

\* C5 as stated: with 17 turns after the system turn once the user turn is
\* appended, the transcript is sent untrimmed; with 18, the oldest 2 go.
C5_SeventeenKept ==
    \A r \in Slots : Built(r) =>
        /\ Len(pushed[r]) - 1 <= 17 => messages[r] = pushed[r]
        /\ Len(pushed[r]) - 1 = 18 => messages[r] = Dropping(pushed[r], 2)

\* C5, amended: with at most 16 turns after the system turn once the user
\* turn is appended, the transcript is sent untrimmed; with 17 the oldest one
\* goes, with 18 the oldest 2.
C5_SixteenKept ==
    \A r \in Slots : Built(r) =>
        /\ Len(pushed[r]) - 1 <= MAX_HISTORY_MESSAGES => messages[r] = pushed[r]
        /\ Len(pushed[r]) - 1 = 17 => messages[r] = Dropping(pushed[r], 1)
        /\ Len(pushed[r]) - 1 = 18 => messages[r] = Dropping(pushed[r], 2)

\* The first trim of a session: 17 turns follow the system turn, and the
\* session's first message is the one turn that goes.
C5_Witness ==
    \E r \in Slots :
        /\ Built(r)
        /\ Len(pushed[r]) = 18
        /\ pushed[r][2] = Msg("user", priorMessage(1))
        /\ Len(messages[r]) = 17
        /\ messages[r][2] = Msg("assistant", priorReply(1))

Min(a, b) == IF a < b THEN a ELSE b

\* C6: no stored or returned history has more than N + 2 = 18 entries; a
\* request that succeeds ends with two entries more than it read (three on
\* a new session), and with exactly 18 when that would be more, so with 18
\* again once it has read 18.
C6_HistoryCapped ==
    /\ \A k \in Keys : Len(kv[k].v) <= MAX_HISTORY_MESSAGES + 2
    /\ \A r \in Slots :
          /\ Len(resp[r].history) <= MAX_HISTORY_MESSAGES + 2
          /\ Succeeded(r) =>
                Len(resp[r].history) =
                    Min(Len(seed(raw[r].v)) + 2, MAX_HISTORY_MESSAGES + 2)

\* A request that read 18 entries has succeeded and stored 18 again.
C6_Witness ==
    \E r \in Slots :
        /\ Succeeded(r)
        /\ Len(raw[r].v) = 18
        /\ Len(resp[r].history) = 18
        /\ kv[keyOf(r)] = JSONstringify(resp[r].history)

\* After the system turn, the turns of h are user and assistant turns by
\* turns.
Alternates(h) ==
    /\ h[1].role = "system"
    /\ \A i \in 2..Len(h) : h[i].role \in {"user", "assistant"}
    /\ \A i \in 2..(Len(h) - 1) : h[i].role # h[i + 1].role

IsSuffix(a, b) == Len(a) <= Len(b) /\ a = SubSeq(b, Len(b) - Len(a) + 1, Len(b))

\* C7 as stated: after the system turn every stored transcript goes user,
\* assistant, user, assistant, ..., beginning with a user turn, also after
\* trimming.
C7_UserFirst ==
    \A k \in Keys : kv[k] # Absent =>
        \A i \in 2..Len(kv[k].v) :
            kv[k].v[i].role = (IF i % 2 = 0 THEN "user" ELSE "assistant")

\* C7, amended: after the system turn every stored transcript alternates
\* user and assistant turns and ends with an assistant turn; a request keeps
\* the turns it read in their order (what it sends is the first turn and a
\* suffix of the others, with its user turn last; what it stores is that and
\* the reply); the turn after the system turn is a user turn until trimming
\* first drops a turn, and an assistant turn in a transcript of 18.
C7_OrderKept ==
    /\ [](\A k \in Keys : kv[k] # Absent =>
            LET h == kv[k].v
            IN  /\ Alternates(h)
                /\ h[Len(h)].role = "assistant"
                /\ Len(h) < MAX_HISTORY_MESSAGES + 2 => h[2].role = "user"
                /\ Len(h) = MAX_HISTORY_MESSAGES + 2 => h[2].role = "assistant")
    /\ [](\A r \in Slots : Built(r) =>
            /\ pushed[r] = Append(seed(raw[r].v), Msg("user", trim(body[r].message.s)))
            /\ messages[r][1] = pushed[r][1]
            /\ IsSuffix(SubSeq(messages[r], 2, Len(messages[r])),
                        SubSeq(pushed[r], 2, Len(pushed[r]))))
    /\ [][\A r \in Slots : (pc[r] = "put" /\ pc'[r] = "done" /\ resp'[r].status = 200) =>
            /\ kv'[keyOf(r)].v = messages[r] \o <<history[r][Len(history[r])]>>
            /\ history[r][Len(history[r])].role = "assistant"]_vars

\* A transcript of 18 is stored whose second turn is an assistant turn and
\* whose last two are the request's message and its answer.
C7_Witness ==
    \E k \in Keys : \E n \in 1..MaxRequests :
        /\ Len(kv[k].v) = 18
        /\ kv[k].v[2].role = "assistant"
        /\ kv[k].v[17] = Msg("user", message(n))
        /\ kv[k].v[18] = Msg("assistant", answer(n))

BadSessionId(b) ==
    b.kind = "object" /\ (~Truthy(b.sessionId) \/ b.sessionId.t # "string")

\* C8: a request whose sessionId is missing, empty or not a string is
\* answered 400 "Missing or invalid sessionId" at once, having called
\* neither the store nor the AI, and the store is as it was.
C8_BadSessionIdRejected ==
    /\ [](\A r \in Slots : BadSessionId(body[r]) =>
            /\ pc[r] = "done"
            /\ resp[r] = json_error("Missing or invalid sessionId", 400)
            /\ calls[r] = <<>>)
    /\ [][\A r \in Slots : (pc[r] = "idle" /\ BadSessionId(body'[r]))
                                => (kv' = kv /\ ttl' = ttl)]_vars

\* A request with sessionId "" and a message in words has been answered 400
\* while another request is in flight.
C8_Witness ==
    \E r, q \in Slots :
        /\ pc[r] = "done" /\ resp[r].status = 400 /\ calls[r] = <<>>
        /\ body[r].sessionId = Str(<<>>)
        /\ body[r].message.s # <<>>
        /\ pc[q] = "run"

\* C9: a request whose message is empty once trimmed is rejected before any
\* call to the store or the AI, and no user turn with empty content is sent
\* to the AI or stored.
C9_BlankMessageRejected ==
    /\ \A r \in Slots :
          /\ (body[r].kind = "object" /\ body[r].message.t = "string"
                /\ trim(body[r].message.s) = <<>>)
                => (pc[r] = "done" /\ resp[r].status = 400 /\ calls[r] = <<>>)
          /\ Msg("user", <<>>) \notin Range(messages[r])
    /\ \A k \in Keys : Msg("user", <<>>) \notin Range(kv[k].v)

IsTranscript(stored_) ==
    stored_.k = "array" /\ \A i \in DOMAIN stored_.v : stored_.v[i].role \in Roles

\* C10: a request that reads a value that is no array of messages answers as
\* on a new session: [system, user, assistant].
C10_CorruptionRecovery ==
    \A r \in Slots : (Succeeded(r) /\ ~IsTranscript(raw[r])) =>
        /\ Len(resp[r].history) = 3
        /\ SubSeq(resp[r].history, 1, 2) =
              <<SystemTurn, Msg("user", trim(body[r].message.s))>>
        /\ resp[r].history[3].role = "assistant"

\* The user message of the request in slot r, as handleChat appends it.
UserTurn(r) == Msg("user", trim(body[r].message.s))

\* The transcript the request in slot r loaded, seeded.
Loaded(r) == seed(loadHistory(raw[r]))

\* Slots r and q hold two requests of one session that both succeeded and
\* both read the same stored value: neither wrote before the other had read.
BothLoadedFirst(r, q) ==
    /\ r # q
    /\ Succeeded(r) /\ Succeeded(q)
    /\ keyOf(r) = keyOf(q)
    /\ raw[r] = raw[q]

\* C11: nothing serializes the requests of one session.  When two requests
\* of a session have both read the store before either wrote and both have
\* answered 200, the key holds the transcript one of them returned: the
\* loaded transcript, windowed, with that request's user message and reply
\* as its last two messages, and nothing of the other request (its user
\* message is not in it, unless the same text is the winner's message or was
\* in the transcript loaded).
C11_LastWriterWins ==
    \A r, q \in Slots :
        BothLoadedFirst(r, q) =>
            \E w \in {r, q} :
                LET l == IF w = r THEN q ELSE r
                    kept == kv[keyOf(w)].v
                    n == Len(kept)
                IN  /\ kv[keyOf(w)] = JSONstringify(resp[w].history)
                    /\ n >= 3
                    /\ kept[n - 1] = UserTurn(w)
                    /\ kept[n] = Msg("assistant", resp[w].reply)
                    /\ Range(SubSeq(kept, 1, n - 2)) \subseteq Range(Loaded(w))
                    /\ n - 2 <= Len(Loaded(w))
                    /\ (UserTurn(l) # UserTurn(w) /\ UserTurn(l) \notin Range(Loaded(w))) =>
                          UserTurn(l) \notin Range(kept)

\* Both requests of one session succeeded on the same stored value, with
\* different messages, and the key holds the second slot's turns only.
C11_Witness ==
    /\ BothLoadedFirst(1, 2)
    /\ raw[1] # Absent
    /\ UserTurn(1) # UserTurn(2)
    /\ kv[keyOf(2)] = JSONstringify(resp[2].history)
    /\ UserTurn(1) \in Range(resp[1].history)
    /\ UserTurn(1) \notin Range(kv[keyOf(2)].v)

\* C12: on success the history in the 200 response is the transcript this
\* request's put stores under its key, the reply in the response is the
\* content of that transcript's last message, and that message is an
\* assistant message.
C12_ResponseIsWhatWasStored ==
    [][\A r \in Slots :
          (pc[r] = "put" /\ pc'[r] = "done" /\ resp'[r].status = 200) =>
              LET h == resp'[r].history
              IN  /\ kv'[keyOf(r)] = JSONstringify(h)
                  /\ loadHistory(kv'[keyOf(r)]) = h
                  /\ Len(h) >= 1
                  /\ h[Len(h)].role = "assistant"
                  /\ h[Len(h)].content = resp'[r].reply]_vars

\* A request that got no response text has succeeded; its reply is the
\* sentinel and so is the last stored message.
C12_Witness ==
    \E r \in Slots :
        /\ Succeeded(r)
        /\ resp[r].reply = NO_RESPONSE
        /\ kv[keyOf(r)] = JSONstringify(resp[r].history)

\* C13: when AI.run resolves without a usable response text (none, or an
\* empty one), the assistant message appended carries the sentinel, so no
\* request appends an assistant message with empty content; the request
\* goes on to the put and answers 200 with that message stored.
C13_SentinelForNoText ==
    /\ \A r \in Slots :
          pc[r] = "put" => history[r][Len(history[r])].content # <<>>
    /\ \A r \in Slots :
          Succeeded(r) =>
              /\ resp[r].reply # <<>>
              /\ resp[r].history[Len(resp[r].history)].content # <<>>

\* The messages of a session's earlier exchanges.
PriorTurns ==
    UNION {{Msg("user", priorMessage(n)), Msg("assistant", priorReply(n))} :
              n \in 1..(FullWindow + MaxExtra)}

\* C14 as claimed: eviction is permanent.  Once a key holds a transcript
\* without an earlier message of the session, no later write to the key
\* brings that message back, whatever requests run and however they interleave.
C14_EvictionPermanent ==
    [][\A k \in Keys : \A T \in PriorTurns :
          (kv[k] # Absent /\ T \notin Range(kv[k].v)) =>
              T \notin Range(kv'[k].v)]_vars

\* Message T is gone from session k: it is neither in the stored transcript
\* nor in the transcript of a request of the session that has loaded.
Gone(T, k) ==
    /\ T \notin Range(kv[k].v)
    /\ \A r \in Slots :
          (pc[r] \in {"run", "put"} /\ keyOf(r) = k) => T \notin Range(history[r])

\* C14: what a request's windowing dropped is not in the transcript its put
\* stores, and eviction is permanent once no request that loaded the message
\* is still in flight: a message that is in neither the stored transcript nor
\* the transcript of any request of the session in flight is in none of them
\* ever after.
C14_GoneStaysGone ==
    [][/\ \A r \in Slots :
             (pc[r] = "put" /\ pc'[r] = "done" /\ resp'[r].status = 200) =>
                 \A T \in Range(pushed[r]) \ Range(history[r]) :
                     T \notin Range(kv'[keyOf(r)].v)
       /\ \A k \in Keys : \A T \in PriorTurns : Gone(T, k) => Gone(T, k)']_vars

\* A request loaded a full transcript from which the first message had been
\* evicted, and has stored its own, still without that message.
C14_Witness ==
    \E r \in Slots :
        /\ Succeeded(r)
        /\ Len(raw[r].v) = MAX_HISTORY_MESSAGES + 2
        /\ Msg("user", priorMessage(1)) \notin Range(raw[r].v)
        /\ Msg("user", priorMessage(FullWindow)) \in Range(raw[r].v)
        /\ kv[keyOf(r)] = JSONstringify(resp[r].history)
        /\ Gone(Msg("user", priorMessage(1)), keyOf(r))

\* The step from s to s' is the one in which the put of the request in slot r
\* resolves and the request answers 200.
Commits(r) == pc[r] = "put" /\ pc'[r] = "done" /\ resp'[r].status = 200

\* The step is a step of the request in slot r.
Steps(r) == pc'[r] # pc[r]

CallOrder == <<"get", "run", "put">>

Puts(r) == Cardinality({i \in DOMAIN calls[r] : calls[r][i] = "put"})

\* C15: a request commits all or nothing.  The step that answers 200 is the
\* request's one store write, of a value whose last two messages are its user
\* message and its assistant message; no other step of any request writes,
\* so a request that answers an error (400 or 500) has written nothing; a
\* request that has answered 200 has made exactly one put.
C15_AllOrNothing ==
    /\ [](\A r \in Slots :
             /\ Succeeded(r) => Puts(r) = 1
             /\ pc[r] = "done" => resp[r].status \in {200, 400, 500})
    /\ [][\A r \in Slots :
             Steps(r) =>
                 IF Commits(r)
                 THEN LET h == kv'[keyOf(r)].v
                      IN  /\ kv' = [kv EXCEPT ![keyOf(r)] = JSONstringify(h)]
                          /\ Len(h) >= 3
                          /\ h[Len(h) - 1] = UserTurn(r)
                          /\ h[Len(h)] = Msg("assistant", reply[r])
                 ELSE kv' = kv /\ ttl' = ttl]_vars

\* A request whose put was rejected has answered 500 after all three calls,
\* and the key still holds what the request had read.
C15_Witness ==
    \E r \in Slots :
        /\ pc[r] = "done"
        /\ resp[r].status = 500
        /\ calls[r] = CallOrder
        /\ raw[r] # Absent
        /\ kv[keyOf(r)] = raw[r]

\* C16: within a request the collaborator calls are get, then run, then put,
\* each at most once: the calls made so far are a prefix of that order, as
\* long as the request's progress; run is called only with the transcript
\* built from what get returned, put only with the reply of run in the
\* transcript; a request that has answered an error makes no further call.
C16_CallsOrdered ==
    \A r \in Slots :
        /\ Len(calls[r]) <= 3
        /\ calls[r] = SubSeq(CallOrder, 1, Len(calls[r]))
        /\ pc[r] = "idle" => calls[r] = <<>>
        /\ pc[r] = "get" => calls[r] = <<"get">>
        /\ pc[r] = "run" => calls[r] = <<"get", "run">>
        /\ pc[r] = "put" => calls[r] = CallOrder
        /\ Succeeded(r) => calls[r] = CallOrder
        /\ (pc[r] = "done" /\ resp[r].status = 400) => calls[r] = <<>>
        /\ "run" \in Range(calls[r]) =>
              /\ messages[r] # <<>>
              /\ messages[r] = windowed(raw[r], trim(body[r].message.s))
        /\ "put" \in Range(calls[r]) =>
              history[r] = Append(messages[r], Msg("assistant", reply[r]))

\* A request whose get was rejected has answered 500 with that one call made.
C16_Witness ==
    \E r \in Slots :
        /\ pc[r] = "done"
        /\ resp[r].status = 500
        /\ body[r].kind = "object"
        /\ calls[r] = <<"get">>

\* C17: the array passed to AI.run has at most MAX_HISTORY_MESSAGES + 1 = 17
\* messages in every request, and its last message is the request's user
\* message, the message of the body trimmed.
C17_SentWindow ==
    \A r \in Slots :
        Built(r) =>
            /\ Len(messages[r]) <= MAX_HISTORY_MESSAGES + 1
            /\ Len(messages[r]) <= 17
            /\ Len(messages[r]) >= 2
            /\ messages[r][Len(messages[r])].role = "user"
            /\ messages[r][Len(messages[r])].content = trim(body[r].message.s)

\* A request whose message had whitespace around it loaded a full transcript:
\* two messages were dropped and 17 sent, the last one the message trimmed.
C17_Witness ==
    \E r \in Slots :
        /\ Built(r)
        /\ Len(pushed[r]) = MAX_HISTORY_MESSAGES + 3
        /\ Len(messages[r]) = MAX_HISTORY_MESSAGES + 1
        /\ body[r].message.s # trim(body[r].message.s)
        /\ trim(body[r].message.s) # <<>>
        /\ messages[r][Len(messages[r])] = UserTurn(r)

\* C18: the transcript a successful request stores is the array it passed to
\* AI.run followed by one assistant message holding the reply, and nothing
\* else: no message its trimHistory dropped is in it.
C18_StoredIsSentPlusReply ==
    [][\A r \in Slots :
          Commits(r) =>
              /\ kv'[keyOf(r)] =
                    JSONstringify(messages[r] \o <<Msg("assistant", resp'[r].reply)>>)
              /\ Len(kv'[keyOf(r)].v) = Len(messages[r]) + 1
              /\ \A T \in Range(pushed[r]) \ Range(messages[r]) :
                    T \notin Range(kv'[keyOf(r)].v)]_vars

\* A request whose trimHistory dropped a message has stored what it sent and
\* the reply, and the dropped message is not stored.
C18_Witness ==
    \E r \in Slots :
        /\ Succeeded(r)
        /\ Len(pushed[r]) > Len(messages[r])
        /\ kv[keyOf(r)] = JSONstringify(Append(messages[r], Msg("assistant", resp[r].reply)))
        /\ pushed[r][2] \notin Range(kv[keyOf(r)].v)

\* C19: expiry is sliding and driven by writes.  The step in which a request
\* answers 200 gives its key the full EXPIRATION_TTL of 7 days again and
\* leaves the other keys' lifetimes alone; no other step of a request (a
\* rejection, a failure, a read) changes a lifetime or a value; a lifetime
\* only shrinks as time passes; a key goes only as time passes, when what is
\* left of its lifetime has run out, and a key is there exactly while it has
\* lifetime left.
C19_SlidingExpiry ==
    /\ EXPIRATION_TTL = 7 * 24 * 60 * 60
    /\ [](\A k \in Keys :
             /\ ttl[k] \in 0..EXPIRATION_TTL
             /\ kv[k] = Absent <=> ttl[k] = 0)
    /\ [][/\ \A r \in Slots :
                Steps(r) =>
                    IF Commits(r)
                    THEN ttl' = [ttl EXCEPT ![keyOf(r)] = EXPIRATION_TTL]
                    ELSE ttl' = ttl /\ kv' = kv
          /\ \A k \in Keys :
                /\ ttl'[k] < ttl[k] => pc' = pc /\ \A r \in Slots : pc[r] = "idle"
                /\ (kv[k] # Absent /\ kv'[k] = Absent) =>
                      /\ pc' = pc
                      /\ ttl[k] <= TickSeconds
                      /\ ttl'[k] = 0]_vars

\* Time has passed since the second session was written (half its lifetime
\* is left), and the first session, as old or older, has been written since
\* by a request that succeeded: it has its full lifetime again.
C19_Witness ==
    \E r \in Slots :
        /\ Succeeded(r)
        /\ keyOf(r) = FirstKey
        /\ raw[r] # Absent
        /\ ttl[FirstKey] = EXPIRATION_TTL
        /\ kv[sessionKey(<<"s2">>)] # Absent
        /\ ttl[sessionKey(<<"s2">>)] = TickSeconds

\* The key of the session the request in slot r is for, in the step that
\* brings the request in or in a later step.
SessionKeyOf(r) ==
    sessionKey(IF pc[r] = "idle" THEN body'[r].sessionId.s ELSE body[r].sessionId.s)

\* C20: sessions are isolated.  Different session ids have different keys;
\* a request reads the key of its own session; and no step of a request
\* changes the value or the lifetime of a key other than its own session's.
C20_SessionsIsolated ==
    /\ \A a, b \in SessionIds : a # b => sessionKey(a) # sessionKey(b)
    /\ [][\A r \in Slots :
             Steps(r) =>
                 /\ \A k \in Keys :
                       k # SessionKeyOf(r) => kv'[k] = kv[k] /\ ttl'[k] = ttl[k]
                 /\ (pc[r] = "get" /\ pc'[r] = "run") =>
                       raw'[r] = kv[sessionKey(body[r].sessionId.s)]]_vars

\* A request for the second session has succeeded while a request for the
\* first is in flight; the first session's transcript is the one it had.
C20_Witness ==
    \E r, q \in Slots :
        /\ Succeeded(r)
        /\ body[r].sessionId = Str(<<"s2">>)
        /\ kv[sessionKey(<<"s2">>)] = JSONstringify(resp[r].history)
        /\ pc[q] = "put"
        /\ body[q].sessionId = Str(<<"s1">>)
        /\ kv[FirstKey] = raw[q]
        /\ raw[q] # Absent

====
